---- MODULE Spec2Model ----
(***************************************************************************)
(* GASpy document codec (gaspy/mongo.py): make_doc_from_atoms encodes an   *)
(* ase.Atoms structure into a Mongo document, make_atoms_from_doc decodes  *)
(* a document back into a structure.                                       *)
(*                                                                         *)
(* Conventions of the model                                                *)
(*  - lengths are integers in tenths of an Angstrom, energies in tenths of *)
(*    an eV; every position of the atom pool lies on the z axis, so that   *)
(*    the norm of a displacement is an integer;                            *)
(*  - a numpy array is the record [ndarray |-> <<...>>], a JSON list is a  *)
(*    bare sequence, a Python dict is a function over its string keys;     *)
(*  - Python's None is the record PyNone, a raised exception is the record *)
(*    Raise(name); an operator that models a function returns either its   *)
(*    value or the exception it raises;                                    *)
(*  - Python indices are 0-based, sequences here are 1-based.              *)
(***************************************************************************)
EXTENDS Integers, Sequences, FiniteSets, TLC

VARIABLES
    atoms,      \* the structure the caller holds: PyNone, an Atoms object or a raised exception
    doc,        \* the document the caller holds: PyNone, a document or a raised exception
    doc_from,   \* how doc came to be: "none", "encode" (make_doc_from_atoms) or "fetch" (read from the collection)
    src_atoms,  \* the structure doc was encoded from (PyNone when doc was fetched)
    src_doc,    \* the document atoms was decoded from (PyNone when atoms was built by the caller)
    src_from,   \* doc_from of src_doc
    call,       \* the arguments and observations of the last make_doc_from_atoms call
    now,        \* the wall clock (utcnow), in ticks
    params      \* the last call of a parameter builder of gaspy/defaults.py: PyNone, or its
                \* arguments, locals and result

vars == <<atoms, doc, doc_from, src_atoms, src_doc, src_from, call, now, params>>

----------------------------------------------------------------------------
(* Bounds of the model *)

MaxAtoms == 2
MaxClock == 1
MaxConstraintDicts == 2

----------------------------------------------------------------------------
(* Python values *)

PyNone == [kind |-> "None"]

Raise(exc) == [kind |-> "raise", exc |-> exc]

IsRaise(v) == "kind" \in DOMAIN v /\ v.kind = "raise"

IsNone(v) == "kind" \in DOMAIN v /\ v.kind = "None"

IsAtoms(v) == "kind" \in DOMAIN v /\ v.kind = "Atoms"

\* a document is a dict: it has no "kind" key
IsDoc(v) == "kind" \notin DOMAIN v

\* RuntimeError and its subclasses (NotImplementedError derives from RuntimeError,
\* ase's PropertyNotImplementedError from NotImplementedError): what
\* `except RuntimeError` catches
IsRuntimeError(v) ==
    IsRaise(v) /\ v.exc \in {"RuntimeError", "NotImplementedError", "PropertyNotImplementedError"}

EmptyDict == << >>

np_array(list) == [ndarray |-> list]

tolist(arr) == arr.ndarray

RECURSIVE SumSeq(_)
SumSeq(s) == IF s = << >> THEN 0 ELSE Head(s) + SumSeq(Tail(s))

RECURSIVE MaxSeq(_)
MaxSeq(s) == IF Len(s) = 1 THEN Head(s)
             ELSE LET m == MaxSeq(Tail(s)) IN IF Head(s) > m THEN Head(s) ELSE m

Abs(x) == IF x < 0 THEN -x ELSE x

RECURSIVE Flatten(_)
Flatten(rows) == IF rows = << >> THEN << >> ELSE Head(rows) \o Flatten(Tail(rows))

Det3(m) ==
      m[1][1] * (m[2][2] * m[3][3] - m[2][3] * m[3][2])
    - m[1][2] * (m[2][1] * m[3][3] - m[2][3] * m[3][1])
    + m[1][3] * (m[2][1] * m[3][2] - m[2][2] * m[3][1])

----------------------------------------------------------------------------
(* ase: Atom, Atoms, constraints, calculators (the collaborators mongo.py calls) *)

\* ase.Atom(symbol, position, tag, momentum, magmom, charge): the position and the
\* momentum become numpy arrays
Atom(symbol, position, tag, momentum, magmom, charge) ==
    [symbol |-> symbol, position |-> np_array(position), tag |-> tag,
     momentum |-> np_array(momentum), magmom |-> magmom, charge |-> charge]

\* ase.Atoms(list of Atom, cell, pbc, info, constraint): no calculator attached
Atoms(atom_list, cell, pbc, info, constraint) ==
    [kind |-> "Atoms", atoms |-> atom_list, cell |-> [Cell |-> np_array(cell)],
     pbc |-> np_array(pbc), info |-> info, constraints |-> constraint, calc |-> PyNone]

set_calculator(a, calc) == [a EXCEPT !.calc = calc]

get_calculator(a) == a.calc

\* `if calculator:` a calculator object is truthy, None is not
Truthy(calc) == ~IsNone(calc)

len(a) == Len(a.atoms)

\* `for atom in atoms` / enumerate(atoms): the Atom views, each with its 0-based index
AtomsIter(a) == [i \in 1..len(a) |-> [atom |-> a.atoms[i], index |-> i - 1]]

AtomicMass(symbol) ==
    CASE symbol = "H" -> 1
      [] symbol = "C" -> 12
      [] symbol = "O" -> 16

AtomicNumber(symbol) ==
    CASE symbol = "H" -> 1
      [] symbol = "C" -> 6
      [] symbol = "O" -> 8

get_masses(a) == [i \in 1..len(a) |-> AtomicMass(a.atoms[i].symbol)]

get_chemical_symbols(a) == [i \in 1..len(a) |-> a.atoms[i].symbol]

get_cell(a) == a.cell.Cell.ndarray

\* Atoms.get_volume: abs(det(cell))
get_volume(a) == Abs(Det3(get_cell(a)))

\* constraint objects
FixAtoms(indices) == [class |-> "FixAtoms", index |-> np_array(indices)]

Hookean(a1, a2, k, rt) ==
    [class |-> "Hookean", indices |-> <<a1, a2>>, threshold |-> rt, spring |-> k]

\* c.todict() of a constraint
todict(c) ==
    IF c.class = "FixAtoms"
    THEN [name |-> "FixAtoms", kwargs |-> [indices |-> tolist(c.index)]]
    ELSE [name |-> "Hookean",
          kwargs |-> [a1 |-> c.indices[1], a2 |-> c.indices[2],
                      rt |-> c.threshold, k |-> c.spring]]

\* the constraint classes ase.constraints exports
KnownConstraints == {"FixAtoms", "Hookean"}

\* ase.constraints.dict2constraint: raises ValueError on a name it does not export
dict2constraint_lenient(dct) ==
    IF dct.name = "Hookean"
    THEN Hookean(dct.kwargs.a1, dct.kwargs.a2, dct.kwargs.k, dct.kwargs.rt)
    ELSE FixAtoms(IF dct.name = "FixAtoms" THEN dct.kwargs.indices ELSE << >>)

dict2constraint(dct) ==
    IF dct.name \notin KnownConstraints THEN Raise("ValueError")
    ELSE IF dct.name = "FixAtoms" THEN FixAtoms(dct.kwargs.indices)
    ELSE Hookean(dct.kwargs.a1, dct.kwargs.a2, dct.kwargs.k, dct.kwargs.rt)

\* constraint.adjust_forces(atoms, forces): FixAtoms zeroes the rows of its atoms,
\* Hookean adds the restoring force once the bond is longer than the threshold
adjust_forces(c, a, forces) ==
    IF c.class = "FixAtoms"
    THEN [i \in 1..Len(forces) |->
            IF \E j \in 1..Len(c.index.ndarray) : c.index.ndarray[j] = i - 1
            THEN <<0, 0, 0>> ELSE forces[i]]
    ELSE LET i1 == c.indices[1] + 1
             i2 == c.indices[2] + 1
             dz == tolist(a.atoms[i2].position)[3] - tolist(a.atoms[i1].position)[3]
             bondlength == Abs(dz)
             magnitude == c.spring * (bondlength - c.threshold)
             push == IF dz > 0 THEN magnitude ELSE -magnitude
         IN  IF bondlength > c.threshold
             THEN [i \in 1..Len(forces) |->
                     IF i = i1 THEN <<forces[i][1], forces[i][2], forces[i][3] + push>>
                     ELSE IF i = i2 THEN <<forces[i][1], forces[i][2], forces[i][3] - push>>
                     ELSE forces[i]]
             ELSE forces

RECURSIVE ApplyConstraints(_, _, _)
ApplyConstraints(cs, a, forces) ==
    IF cs = << >> THEN forces
    ELSE ApplyConstraints(Tail(cs), a, adjust_forces(Head(cs), a, forces))

\* calculator.calculation_required(atoms, [quantity]): the structure changed since the
\* calculation, or the quantity is not among the calculator's results
calculation_required(calc, quantity) ==
    calc.changed \/ quantity \notin DOMAIN calc.results

\* Atoms.get_magnetic_moments: RuntimeError without a calculator; a calculator that
\* holds no magnetic moments raises PropertyNotImplementedError
get_magnetic_moments(a) ==
    IF IsNone(a.calc) THEN Raise("RuntimeError")
    ELSE IF calculation_required(a.calc, "magmoms") THEN Raise("PropertyNotImplementedError")
    ELSE a.calc.results.magmoms

\* Atoms.get_potential_energy(apply_constraint=False): the calculator's cached energy;
\* asked while the energy is pending, the calculator runs and returns a fresh one
get_potential_energy(a) ==
    IF calculation_required(a.calc, "energy") THEN -99 ELSE a.calc.results.energy

\* calculator.get_forces(atoms): cached, or freshly computed while pending
CalcForces(a) ==
    IF calculation_required(a.calc, "forces")
    THEN np_array([i \in 1..Len(a.atoms) |-> <<0, 0, 9>>])
    ELSE a.calc.results.forces

\* Atoms.get_forces(apply_constraint): every constraint adjusts the forces in turn
get_forces(a, apply_constraint) ==
    IF apply_constraint
    THEN np_array(ApplyConstraints(a.constraints, a, tolist(CalcForces(a))))
    ELSE CalcForces(a)

\* dict.get(key, None); the optional result is << >> for None and <<v>> for a value v
DictGet(d, key) == IF key \in DOMAIN d THEN <<d[key]>> ELSE << >>

\* SinglePointCalculator(energy, forces, stress, atoms): keeps the values that are not
\* None; forces and stress become numpy arrays; it holds a copy of the structure, so
\* nothing has changed since
SinglePointCalculator(energy, forces, stress) ==
    LET given == [energy |-> energy, forces |-> forces, stress |-> stress]
    IN  [class |-> "SinglePointCalculator", module |-> "ase.calculators.singlepoint",
         results |-> [q \in {k \in {"energy", "forces", "stress"} : given[k] # << >>} |->
                        IF q = "energy" THEN given[q][1] ELSE np_array(given[q][1])],
         changed |-> FALSE, has_todict |-> TRUE, parameters |-> EmptyDict]

\* spglib.get_spacegroup(cell): an opaque label of (lattice, positions, numbers)
get_spacegroup(cell) == [spacegroup_of |-> cell]

----------------------------------------------------------------------------
(* gaspy/mongo.py: the encoder *)

\* json.loads(encode(x)) of a numpy array: the plain list
JsonArray(arr) == tolist(arr)

\* one atom record of the document
AtomDict(view, magmom) ==
    [symbol |-> view.atom.symbol,
     position |-> JsonArray(view.atom.position),
     tag |-> view.atom.tag,
     index |-> view.index,
     charge |-> view.atom.charge,
     momentum |-> JsonArray(view.atom.momentum),
     magmom |-> magmom]

\* the magnetic moment written for atom i: the calculator's when
\* get_magnetic_moments() returns, the atom's own when it raises RuntimeError
MagmomOf(a, i) ==
    LET magmoms == get_magnetic_moments(a)
    IN  IF IsRuntimeError(magmoms) THEN a.atoms[i].magmom ELSE tolist(magmoms)[i]

make_spglib_cell_from_atoms(a) ==
    <<get_cell(a),
      [i \in 1..len(a) |-> tolist(a.atoms[i].position)],
      [i \in 1..len(a) |-> AtomicNumber(a.atoms[i].symbol)]>>

SymbolCounts(syms) ==
    [sym \in {syms[i] : i \in 1..Len(syms)} |->
        Cardinality({i \in 1..Len(syms) : syms[i] = sym})]

\* the condition under which the volume is written
VolumeGuardNonZero(cell) == Det3(cell) # 0

VolumeGuard(cell) == Det3(cell) > 0

Natoms(a) == len(a)

_make_atoms_dict(a) ==
    LET views == AtomsIter(a)
        syms == get_chemical_symbols(a)
        atoms_dict ==
            [atoms |-> [i \in 1..len(a) |-> AtomDict(views[i], MagmomOf(a, i))],
             cell |-> [array |-> JsonArray(a.cell.Cell)],
             pbc |-> JsonArray(a.pbc),
             info |-> a.info,
             constraints |-> [i \in 1..Len(a.constraints) |-> todict(a.constraints[i])],
             natoms |-> Natoms(a),
             mass |-> SumSeq(get_masses(a)),
             spacegroup |-> get_spacegroup(make_spglib_cell_from_atoms(a)),
             chemical_symbols |-> {syms[i] : i \in 1..Len(syms)},
             symbol_counts |-> SymbolCounts(syms)]
    IN  IF VolumeGuard(get_cell(a))
        THEN atoms_dict @@ [volume |-> get_volume(a)]
        ELSE atoms_dict

\* numpy integers of the k-point array, and int() of one
np_int(n) == [np_int64 |-> n]

int(x) == x.np_int64

\* calculator.todict(): the settings, AttributeError when the calculator has none
calculator_todict(calc) ==
    IF calc.has_todict THEN calc.parameters ELSE Raise("AttributeError")

_make_calculator_dict_placeholder(a) ==
    IF Truthy(get_calculator(a))
    THEN [calculator |-> [module |-> get_calculator(a).module, class |-> get_calculator(a).class]]
    ELSE [calculator |-> EmptyDict]

_make_calculator_dict_settings_win(a) ==
    LET calculator == get_calculator(a)
        settings == calculator_todict(calculator)
        base == IF IsRaise(settings) THEN EmptyDict
                ELSE IF "kpts" \in DOMAIN settings
                THEN [settings EXCEPT !["kpts"] =
                        [i \in 1..Len(tolist(settings["kpts"])) |-> int(tolist(settings["kpts"])[i])]]
                ELSE settings
    IN  IF Truthy(calculator)
        THEN [calculator |-> base @@ [module |-> calculator.module, class |-> calculator.class]]
        ELSE EmptyDict

_make_calculator_dict(a) ==
    LET calculator == get_calculator(a)
        settings == calculator_todict(calculator)
        base == IF IsRaise(settings) THEN EmptyDict
                ELSE IF "kpts" \in DOMAIN settings
                THEN [settings EXCEPT !["kpts"] =
                        [i \in 1..Len(tolist(settings["kpts"])) |-> int(tolist(settings["kpts"])[i])]]
                ELSE settings
    IN  IF Truthy(calculator)
        THEN [calculator |-> [module |-> calculator.module, class |-> calculator.class] @@ base]
        ELSE EmptyDict

\* the force components with constraints applied, flattened
FlatForces(a) == Flatten(tolist(get_forces(a, TRUE)))

\* max(np.abs(...)): Python's max raises ValueError on an empty sequence
Fmax(a) == MaxSeq([i \in 1..Len(FlatForces(a)) |-> Abs(FlatForces(a)[i])])

\* the quantities _make_results_dict asks the calculator for
ResultsRequestedAlways(a) ==
    IF Truthy(get_calculator(a)) THEN {"energy", "forces"} ELSE {}

ResultsRequested(a) ==
    LET calculator == get_calculator(a)
    IN  IF Truthy(calculator)
        THEN {q \in {"energy", "forces"} : ~calculation_required(calculator, q)}
        ELSE {}

_make_results_dict(a) ==
    LET asked == ResultsRequested(a)
        energy == IF "energy" \in asked
                  THEN [energy |-> get_potential_energy(a)] ELSE EmptyDict
        forces == IF "forces" \in asked
                  THEN [forces |-> tolist(get_forces(a, FALSE)), fmax |-> Fmax(a)]
                  ELSE EmptyDict
    IN  IF "forces" \in asked /\ FlatForces(a) = << >> THEN Raise("ValueError")
        ELSE energy @@ forces

\* os.getenv('USER')
getenv_USER == "ktran"

\* make_doc_from_atoms(atoms, **kwargs) with the clock reading ctime at the first
\* utcnow() and mtime at the second. `atoms` is the name of the positional
\* parameter: Python rejects a call that also passes it as a keyword (TypeError)
make_doc_from_atoms(a, kwargs, ctime, mtime) ==
    IF "atoms" \in DOMAIN kwargs THEN Raise("TypeError")
    ELSE LET results_dict == _make_results_dict(a)
         IN  IF IsRaise(results_dict) THEN results_dict
             ELSE kwargs @@ [atoms |-> _make_atoms_dict(a),
                             calc |-> _make_calculator_dict(a),
                             results |-> results_dict,
                             user |-> getenv_USER,
                             ctime |-> ctime,
                             mtime |-> mtime]

----------------------------------------------------------------------------
(* gaspy/mongo.py: the decoder *)

AtomFromDictNoTag(d) == Atom(d.symbol, d.position, 0, d.momentum, d.magmom, d.charge)

AtomFromDict(d) == Atom(d.symbol, d.position, d.tag, d.momentum, d.magmom, d.charge)

ResultsCalculatorZeroFilled(results) ==
    SinglePointCalculator(IF "energy" \in DOMAIN results THEN <<results["energy"]>> ELSE <<0>>,
                          IF "forces" \in DOMAIN results THEN <<results["forces"]>> ELSE <<0>>,
                          IF "stress" \in DOMAIN results THEN <<results["stress"]>> ELSE <<0>>)

ResultsCalculatorNoForces(results) ==
    SinglePointCalculator(DictGet(results, "energy"), << >>, DictGet(results, "stress"))

ResultsCalculator(results) ==
    SinglePointCalculator(DictGet(results, "energy"),
                          DictGet(results, "forces"),
                          DictGet(results, "stress"))

make_atoms_from_doc(d) ==
    LET constraint == [i \in 1..Len(d["atoms"].constraints) |->
                          dict2constraint(d["atoms"].constraints[i])]
        structure == Atoms([i \in 1..Len(d["atoms"].atoms) |-> AtomFromDict(d["atoms"].atoms[i])],
                           d["atoms"].cell.array,
                           d["atoms"].pbc,
                           d["atoms"].info,
                           constraint)
    IN  IF \E i \in 1..Len(constraint) : IsRaise(constraint[i])
        THEN Raise("ValueError")
        ELSE set_calculator(structure, ResultsCalculator(d["results"]))

----------------------------------------------------------------------------
(* The structures, keyword arguments and stored documents the model draws from *)

AtomPool ==
    {Atom("H", <<0, 0, -5>>, 0, <<0, 0, 0>>, 0, 0),
     Atom("O", <<0, 0, 0>>, 1, <<1, 0, 0>>, 2, -1)}

AtomLists == UNION {[1..n -> AtomPool] : n \in 0..MaxAtoms}

\* no cell, a right-handed cell, a left-handed cell
CellPool ==
    {[cell |-> <<<<0, 0, 0>>, <<0, 0, 0>>, <<0, 0, 0>>>>,
      pbc |-> <<FALSE, FALSE, FALSE>>, info |-> EmptyDict],
     [cell |-> <<<<20, 0, 0>>, <<0, 20, 0>>, <<0, 0, 20>>>>,
      pbc |-> <<TRUE, TRUE, TRUE>>, info |-> [adsorbate |-> "CO"]],
     [cell |-> <<<<20, 0, 0>>, <<0, 0, 20>>, <<0, 20, 0>>>>,
      pbc |-> <<TRUE, TRUE, FALSE>>, info |-> EmptyDict]}

\* constraint lists whose atom indices exist in a structure of n atoms
ConstraintPool(n) ==
    {<< >>}
    \cup (IF n >= 1 THEN {<<FixAtoms(<<0>>)>>} ELSE {})
    \cup (IF n >= 2 THEN {<<FixAtoms(<<0>>), Hookean(0, 1, 2, 3)>>} ELSE {})

\* what a finished calculation of n atoms holds
FullResults(n) ==
    [energy |-> -142,
     forces |-> np_array([i \in 1..n |-> <<0, 0, 4 * i - 6>>]),
     magmoms |-> np_array([i \in 1..n |-> 10 + i])]

\* the settings a calculator declares: k-points and a cut-off, no todict() at all,
\* or settings without k-points that use the key "module" themselves
SettingsPool ==
    <<[has_todict |-> FALSE, parameters |-> EmptyDict],
      [has_todict |-> TRUE,
       parameters |-> [kpts |-> np_array(<<np_int(4), np_int(4), np_int(1)>>), encut |-> 350]],
      [has_todict |-> TRUE, parameters |-> [xc |-> "rpbe", module |-> "settings"]],
      [has_todict |-> TRUE, parameters |-> EmptyDict]>>

VaspCalculator(results, changed) ==
    LET settings == SettingsPool[Cardinality(DOMAIN results) + 1]
    IN  [class |-> "Vasp", module |-> "vasp.vasp_core", results |-> results,
         changed |-> changed, has_todict |-> settings.has_todict,
         parameters |-> settings.parameters]

\* no calculator; a calculator holding nothing, one quantity or all of energy, forces
\* and magnetic moments; a calculator whose structure moved after energy and forces
\* were computed
CalcPool(n) ==
    {PyNone}
    \cup {VaspCalculator([q \in held |-> FullResults(n)[q]], FALSE) :
            held \in {{}, {"energy"}, {"forces"}, {"magmoms"}, {"energy", "forces", "magmoms"}}}
    \cup {VaspCalculator([q \in {"energy", "forces"} |-> FullResults(n)[q]], TRUE)}

\* the keyword arguments callers pass
KwargsPool ==
    {EmptyDict,
     [atoms |-> "other"],
     [fwid |-> 5, results |-> [energy |-> 7]],
     [calc |-> [calculator |-> [class |-> "Espresso"]],
      user |-> "zulissi", ctime |-> 100, mtime |-> 200]}

\* constraint dictionaries found in stored documents, one of a kind ase does not export
ConstraintDictPool ==
    {todict(FixAtoms(<<0>>)), todict(Hookean(0, 1, 2, 3)),
     [name |-> "FixScaledXYZ", kwargs |-> [a |-> 0]]}

ConstraintDictLists == UNION {[1..n -> ConstraintDictPool] : n \in 0..MaxConstraintDicts}

StoredResults ==
    [energy |-> -142, forces |-> <<<<0, 0, -2>>, <<0, 0, 2>>>>, stress |-> <<1, 1, 1, 0, 0, 0>>]

\* documents of the collection written by other writers: a two-atom structure with
\* any constraint dictionaries and any subset of energy, forces and stress
StoredDocs ==
    LET template == make_doc_from_atoms(
            Atoms(<<Atom("C", <<0, 0, 0>>, 0, <<0, 0, 0>>, 0, 0),
                    Atom("O", <<0, 0, 12>>, 0, <<0, 0, 0>>, 0, 0)>>,
                  <<<<20, 0, 0>>, <<0, 20, 0>>, <<0, 0, 20>>>>,
                  <<TRUE, TRUE, FALSE>>, EmptyDict, << >>),
            EmptyDict, 0, 0)
    IN  {[template EXCEPT !["atoms"].constraints = cds,
                          !["results"] = [q \in held |-> StoredResults[q]]] :
            cds \in ConstraintDictLists, held \in SUBSET {"energy", "forces", "stress"}}

----------------------------------------------------------------------------
(* The state machine *)

NoCall == [kwargs |-> EmptyDict, requested |-> {}, computed |-> {}]

Init ==
    /\ atoms = PyNone
    /\ doc = PyNone
    /\ doc_from = "none"
    /\ src_atoms = PyNone
    /\ src_doc = PyNone
    /\ src_from = "none"
    /\ call = NoCall
    /\ now = 0
    /\ params = PyNone

\* the caller builds a structure
BuildAtoms ==
    /\ IsNone(atoms) /\ IsNone(doc)
    /\ \E atom_list \in AtomLists, c \in CellPool :
         \E constraint \in ConstraintPool(Len(atom_list)), calc \in CalcPool(Len(atom_list)) :
            atoms' = set_calculator(Atoms(atom_list, c.cell, c.pbc, c.info, constraint), calc)
    /\ UNCHANGED <<doc, doc_from, src_atoms, src_doc, src_from, call, now, params>>

\* the caller reads a document from the collection
FetchDoc ==
    /\ IsNone(atoms) /\ IsNone(doc)
    /\ doc' \in StoredDocs
    /\ doc_from' = "fetch"
    /\ UNCHANGED <<atoms, src_atoms, src_doc, src_from, call, now, params>>

\* make_doc_from_atoms(atoms, **kwargs); the clock may advance between the two
\* utcnow() reads
MakeDocFromAtoms ==
    /\ IsAtoms(atoms)
    /\ \E kwargs \in KwargsPool, elapsed \in 0..1 :
         /\ now + elapsed <= MaxClock
         /\ doc' = make_doc_from_atoms(atoms, kwargs, now, now + elapsed)
         /\ now' = now + elapsed
         /\ call' = [kwargs |-> kwargs,
                     requested |-> IF "atoms" \in DOMAIN kwargs THEN {} ELSE ResultsRequested(atoms),
                     computed |-> IF "atoms" \in DOMAIN kwargs THEN {}
                                  ELSE {q \in ResultsRequested(atoms) :
                                          calculation_required(get_calculator(atoms), q)}]
    /\ doc_from' = "encode"
    /\ src_atoms' = atoms
    /\ UNCHANGED <<atoms, src_doc, src_from, params>>

\* make_atoms_from_doc(doc)
MakeAtomsFromDoc ==
    /\ IsDoc(doc)
    /\ atoms' = make_atoms_from_doc(doc)
    /\ src_doc' = doc
    /\ src_from' = doc_from
    /\ UNCHANGED <<doc, doc_from, src_atoms, call, now, params>>

Next == BuildAtoms \/ FetchDoc \/ MakeDocFromAtoms \/ MakeAtomsFromDoc

Spec == Init /\ [][Next]_vars

----------------------------------------------------------------------------
(* gaspy/defaults.py: the parameter builders *)
(* A settings argument is [str |-> name] for a string and [dict |-> d] for a       *)
(* dictionary; an adsorbate argument is [str |-> name] or an Atoms object.         *)
(* Positions of the adsorbate catalog are in hundredths of an Angstrom.            *)

\* Vasp.xc_defaults of the vasp package
Vasp_xc_defaults ==
    ("pbe" :> [pp |-> "PBE"])
    @@ ("beef-vdw" :> [gga |-> "BF", luse_vdw |-> TRUE, zab_vdw |-> "-1.8867", pp |-> "PBE"])

xc_settings(xc) ==
    IF xc = "rpbe" THEN [gga |-> "RP", pp |-> "PBE"]
    ELSE Vasp_xc_defaults[xc]

\* the standard settings, used regardless of xc
StandardSettings == [encut |-> 350, pp_version |-> "5.4"]

\* the standard settings, then every key of the xc settings assigned over them
calc_settings(xc) == xc_settings(xc) @@ StandardSettings

\* `if isinstance(settings, str): settings = calc_settings(settings)`
ResolveSettings(settings) ==
    IF "str" \in DOMAIN settings THEN calc_settings(settings.str) ELSE settings.dict

\* OrderedDict(key=value, ..., **settings): Python raises TypeError when a key of
\* settings is also given as a keyword
OrderedDictWithKwargs(explicit, settings) ==
    IF DOMAIN explicit \cap DOMAIN settings # {} THEN Raise("TypeError")
    ELSE explicit @@ settings

\* the keywords each job kind gives to its vasp_settings, ahead of **settings
\* (adsorption gives nsw too, computed from the adsorbate)
JobKindSettings ==
    [gas |-> [ibrion |-> 2, nsw |-> 100, isif |-> 0, kpts |-> <<1, 1, 1>>, ediffg |-> "-0.03"],
     bulk |-> [ibrion |-> 1, nsw |-> 100, isif |-> 7, isym |-> 0, ediff |-> "1e-8",
               kpts |-> <<10, 10, 10>>, prec |-> "Accurate"],
     slab |-> [ibrion |-> 2, nsw |-> 100, isif |-> 0, isym |-> 0, kpts |-> <<4, 4, 1>>,
               lreal |-> "Auto", ediffg |-> "-0.03"],
     adsorption |-> [ibrion |-> 2, isif |-> 0, isym |-> 0, kpts |-> <<4, 4, 1>>,
                     lreal |-> "Auto", ediffg |-> "-0.03"]]

\* a builder's OrderedDict(..., vasp_settings=OrderedDict(...)): the inner exception
\* propagates
WithVaspSettings(fields, vasp_settings) ==
    IF IsRaise(vasp_settings) THEN vasp_settings
    ELSE fields @@ [vasp_settings |-> vasp_settings]

gas_parameters(gasname, settings) ==
    WithVaspSettings(
        [gasname |-> gasname, relaxed |-> TRUE],
        OrderedDictWithKwargs(JobKindSettings.gas, ResolveSettings(settings)))

\* the settings are copied and their encut replaced before the merge
bulk_parameters(mpid, settings, encut) ==
    WithVaspSettings(
        [mpid |-> mpid, relaxed |-> TRUE, max_atoms |-> 50],
        OrderedDictWithKwargs(JobKindSettings.bulk,
                              [encut |-> encut] @@ ResolveSettings(settings)))

slab_parameters(miller, top, shift, settings) ==
    WithVaspSettings(
        [miller |-> miller, top |-> top, max_miller |-> 2, shift |-> shift, relaxed |-> TRUE,
         slab_generate_settings |->
            [min_slab_size |-> 7, min_vacuum_size |-> 20, lll_reduce |-> FALSE,
             center_slab |-> TRUE, primitive |-> TRUE, max_normal_search |-> 1],
         get_slab_settings |->
            [tol |-> "0.3", bonds |-> PyNone, max_broken_bonds |-> 0, symmetrize |-> FALSE]],
        OrderedDictWithKwargs(JobKindSettings.slab, ResolveSettings(settings)))

\* Atoms(symbols, positions): no cell, no periodicity, no constraint, no calculator
PlainAtoms(symbols, positions) ==
    Atoms([i \in 1..Len(symbols) |->
              Atom(symbols[i], positions[i], 0, <<0, 0, 0>>, 0, 0)],
          <<<<0, 0, 0>>, <<0, 0, 0>>, <<0, 0, 0>>>>,
          <<FALSE, FALSE, FALSE>>, EmptyDict, << >>)

\* Atoms.set_constraint(c): replaces the constraints of the structure
set_constraint(a, c) == [a EXCEPT !.constraints = <<c>>]

OOHPositions == <<<<0, 0, 0>>, <<0, 0, 155>>, <<0, 94, 180>>>>

\* the structure `ooh` of _adsorbates with the springs the code sets on it
ConstrainedOOH ==
    set_constraint(
        set_constraint(PlainAtoms(<<"O", "O", "H">>, OOHPositions), Hookean(0, 1, 10, 195)),
        Hookean(1, 2, 5, 137))

\* the catalog: the structure `ooh` is built with its springs, and 'OOH' is bound to a
\* structure built anew
_adsorbates ==
    LET ooh == ConstrainedOOH
    IN  [U |-> PlainAtoms(<<"U">>, <<<<0, 0, 0>>>>),
         H |-> PlainAtoms(<<"H">>, <<<<0, 0, -50>>>>),
         O |-> PlainAtoms(<<"O">>, <<<<0, 0, 0>>>>),
         C |-> PlainAtoms(<<"C">>, <<<<0, 0, 0>>>>),
         CO |-> PlainAtoms(<<"C", "O">>, <<<<0, 0, 0>>, <<0, 0, 120>>>>),
         OH |-> PlainAtoms(<<"O", "H">>, <<<<0, 0, 0>>, <<0, 0, 96>>>>),
         OOH |-> PlainAtoms(<<"O", "O", "H">>, OOHPositions)]
        @@ ("" :> PlainAtoms(<< >>, << >>))

\* `try: adsorbate = _adsorbates()[adsorbate] / except KeyError: pass`
ResolveAdsorbate(adsorbate) ==
    IF "str" \in DOMAIN adsorbate /\ adsorbate.str \in DOMAIN _adsorbates
    THEN _adsorbates[adsorbate.str]
    ELSE adsorbate

\* `if adsorbate.constraints:` a string has no attribute constraints
NswOf(adsorbate) ==
    IF ~IsAtoms(adsorbate) THEN Raise("AttributeError")
    ELSE IF adsorbate.constraints # << >> THEN [nsw |-> 0]
    ELSE [nsw |-> 200]

\* adsorbate.encode('hex'): an Atoms object has no attribute encode
EncodeHex(adsorbate) ==
    IF IsAtoms(adsorbate) THEN Raise("AttributeError") ELSE [hex |-> adsorbate.str]

\* the locals adsorbate and nsw, and the result: the exception of the first failing
\* step, or the parameters
adsorption_parameters(adsorbate_arg, adsorption_site, slabrepeat, num_slab_atoms, settings) ==
    LET adsorbate == ResolveAdsorbate(adsorbate_arg)
        nsw == NswOf(adsorbate)
        pickled == EncodeHex(adsorbate)
    IN  [adsorbate |-> adsorbate,
         nsw |-> nsw,
         result |->
            IF IsRaise(nsw) THEN nsw
            ELSE IF IsRaise(pickled) THEN pickled
            ELSE WithVaspSettings(
                    [numtosubmit |-> 1, min_xy |-> "4.5", relaxed |-> TRUE,
                     num_slab_atoms |-> num_slab_atoms, slabrepeat |-> slabrepeat,
                     adsorbates |-> <<[name |-> adsorbate, atoms |-> pickled,
                                       adsorption_site |-> adsorption_site]>>],
                    OrderedDictWithKwargs([nsw |-> nsw.nsw] @@ JobKindSettings.adsorption,
                                          ResolveSettings(settings)))]

----------------------------------------------------------------------------
(* The callers of the parameter builders *)

XcNames == {"rpbe", "beef-vdw", "pbe"}

\* the settings a caller passes: the name of a functional, or a dictionary of its own
\* that may hold keys the job kinds set too
SettingsArgPool ==
    {[str |-> xc] : xc \in XcNames}
    \cup {[dict |-> d] : d \in {[encut |-> 400, pp |-> "PBE"],
                                [kpts |-> <<2, 2, 2>>],
                                [nsw |-> 50, ibrion |-> 1, encut |-> 400]}}

\* a structure of the caller's own, held by a spring
CallerAdsorbate ==
    set_constraint(PlainAtoms(<<"C", "O">>, <<<<0, 0, 0>>, <<0, 0, 120>>>>),
                   Hookean(0, 1, 10, 195))

AdsorbateArgPool ==
    {[str |-> name] : name \in DOMAIN _adsorbates \cup {"CH3"}} \cup {CallerAdsorbate}

mongo_vars == <<atoms, doc, doc_from, src_atoms, src_doc, src_from, call, now>>

GasParameters ==
    \E gasname \in {"CO", "H2"}, settings \in SettingsArgPool :
        /\ params' = [builder |-> "gas", gasname |-> gasname, settings |-> settings,
                      result |-> gas_parameters(gasname, settings)]
        /\ UNCHANGED mongo_vars

BulkParameters ==
    \E mpid \in {"mp-30"}, settings \in SettingsArgPool, encut \in {500, 400} :
        /\ params' = [builder |-> "bulk", mpid |-> mpid, settings |-> settings, encut |-> encut,
                      result |-> bulk_parameters(mpid, settings, encut)]
        /\ UNCHANGED mongo_vars

SlabParameters ==
    \E miller \in {<<1, 1, 1>>, <<1, 0, 0>>}, top \in BOOLEAN, settings \in SettingsArgPool :
        /\ params' = [builder |-> "slab", miller |-> miller, top |-> top, settings |-> settings,
                      result |-> slab_parameters(miller, top, 0, settings)]
        /\ UNCHANGED mongo_vars

AdsorptionParameters ==
    \E adsorbate \in AdsorbateArgPool, settings \in SettingsArgPool,
       num_slab_atoms \in {0, 16} :
        /\ params' = [builder |-> "adsorption", settings |-> settings, arg |-> adsorbate,
                      num_slab_atoms |-> num_slab_atoms]
                     @@ adsorption_parameters(adsorbate, "", <<1, 1>>, num_slab_atoms,
                                              settings)
        /\ UNCHANGED mongo_vars

NextDefaults == GasParameters \/ BulkParameters \/ SlabParameters \/ AdsorptionParameters

SpecDefaults == Init /\ [][NextDefaults]_vars

----------------------------------------------------------------------------
(* Claims *)

\* doc is the result of a make_doc_from_atoms call that returned a document
Encoded == doc_from = "encode" /\ IsDoc(doc)

\* atoms is the result of a make_atoms_from_doc call on src_doc
Decoded == IsDoc(src_doc)

\* the magnetic moments of the structure come from the atoms themselves
StaticMagmoms(a) == IsRuntimeError(get_magnetic_moments(a))

\* C1: for every structure S whose magnetic moments are the static per-atom values,
\* make_atoms_from_doc(make_doc_from_atoms(S)) returns a structure with the same
\* ordered atoms as S: symbol, position, tag, index, charge, momentum and magmom of
\* every atom are equal.
C1_DecodeEncodeKeepsAtoms ==
    (Encoded /\ src_doc = doc /\ StaticMagmoms(src_atoms))
        => (IsAtoms(atoms) /\ AtomsIter(atoms) = AtomsIter(src_atoms))

\* a two-atom structure without calculator, with different tags, charges, momenta and
\* magnetic moments, encoded and decoded again
C1_Witness ==
    /\ Encoded /\ src_doc = doc /\ IsNone(src_doc) = FALSE
    /\ IsNone(src_atoms.calc)
    /\ IsAtoms(atoms)
    /\ len(src_atoms) = 2
    /\ src_atoms.atoms[1].symbol = "H" /\ src_atoms.atoms[2].symbol = "O"
    /\ atoms.atoms[2].magmom = 2 /\ atoms.atoms[2].tag = 1

\* what re-encoding has to reproduce: atom records, cell, pbc, constraints, energy, forces
Core(d) ==
    [atoms |-> d["atoms"].atoms, cell |-> d["atoms"].cell, pbc |-> d["atoms"].pbc,
     constraints |-> d["atoms"].constraints,
     energy |-> DictGet(d["results"], "energy"),
     forces |-> DictGet(d["results"], "forces")]

\* doc is make_doc_from_atoms(make_atoms_from_doc(src_doc)), src_doc itself a document
\* made by make_doc_from_atoms
ReEncoded ==
    /\ doc_from = "encode" /\ DOMAIN call.kwargs = {}
    /\ src_from = "encode" /\ IsAtoms(atoms) /\ src_atoms = atoms

\* C2: re-encoding is idempotent: for every document D made by make_doc_from_atoms,
\* make_doc_from_atoms(make_atoms_from_doc(D)) succeeds and has the atom records, cell,
\* pbc, constraints, energy and forces of D, whether or not D was encoded with a
\* calculator attached.
C2_ReEncodeIdempotent ==
    ReEncoded => (IsDoc(doc) /\ Core(doc) = Core(src_doc))

\* a document with energy, forces and two constraints, decoded and encoded again
C2_Witness ==
    /\ ReEncoded /\ IsDoc(doc)
    /\ DOMAIN src_doc["results"] = {"energy", "forces", "fmax"}
    /\ Len(src_doc["atoms"].constraints) = 2
    /\ doc["calc"] # src_doc["calc"]

\* C3 as stated: decoding a document whose results mapping is empty yields a structure
\* with no calculator attached; a computed-result record is attached only if results
\* holds energy, forces or stress.
C3_NoCalculatorForEmptyResults ==
    (Decoded /\ IsAtoms(atoms)
        /\ DOMAIN src_doc["results"] \cap {"energy", "forces", "stress"} = {})
        => IsNone(get_calculator(atoms))

\* C3 amended: decoding always attaches a SinglePointCalculator; it holds a value for
\* exactly those of energy, forces and stress that the results mapping contains (the
\* document's value), and nothing, not a zero, for the others.
C3_CalculatorHoldsExactlyStoredResults ==
    (Decoded /\ IsAtoms(atoms)) =>
        LET calc == get_calculator(atoms)
            results == src_doc["results"]
        IN  /\ Truthy(calc)
            /\ calc.class = "SinglePointCalculator"
            /\ DOMAIN calc.results = DOMAIN results \cap {"energy", "forces", "stress"}
            /\ \A q \in DOMAIN calc.results :
                   calc.results[q] = IF q = "energy" THEN results[q] ELSE np_array(results[q])

\* a document with an empty results mapping decoded: the calculator is there and empty
C3_Witness ==
    /\ Decoded /\ IsAtoms(atoms)
    /\ DOMAIN src_doc["results"] = {}
    /\ Truthy(get_calculator(atoms))
    /\ DOMAIN get_calculator(atoms).results = {}

\* the document has a constraint dictionary of a kind ase does not export
HasUnknownConstraint(d) ==
    \E i \in 1..Len(d["atoms"].constraints) :
        d["atoms"].constraints[i].name \notin {"FixAtoms", "Hookean"}

\* C4: decoding a document in which any constraint dictionary has an unrecognized kind
\* fails with an error that reaches the caller, and no structure is returned, wherever
\* the bad constraint stands in the list and however many valid ones precede it.
C4_UnknownConstraintRaises ==
    (Decoded /\ HasUnknownConstraint(src_doc)) => (IsRaise(atoms) /\ atoms.exc = "ValueError")

\* the bad constraint is the last of two, after a valid one
C4_Witness ==
    /\ Decoded /\ IsRaise(atoms)
    /\ Len(src_doc["atoms"].constraints) = 2
    /\ src_doc["atoms"].constraints[1].name = "FixAtoms"
    /\ src_doc["atoms"].constraints[2].name = "FixScaledXYZ"

C6_VolumeIffPositiveDeterminant ==
    Encoded => ("volume" \in DOMAIN doc["atoms"] <=> Det3(get_cell(src_atoms)) > 0)

\* a left-handed cell encoded: a document without volume
C6_Witness ==
    /\ Encoded
    /\ Det3(get_cell(src_atoms)) < 0
    /\ "volume" \notin DOMAIN doc["atoms"]
    /\ doc["atoms"].natoms = 2

\* C7: encoding succeeds for every structure, one with zero atoms included, and the
\* document's natoms is the number of atoms of the input; for a zero-atom structure
\* natoms is 0 and chemical_symbols is empty.
C7_EncodeSucceedsForEveryStructure ==
    (doc_from = "encode" /\ "atoms" \notin DOMAIN call.kwargs) =>
        /\ IsDoc(doc)
        /\ doc["atoms"].natoms = len(src_atoms)
        /\ len(src_atoms) = 0 =>
              (doc["atoms"].natoms = 0 /\ doc["atoms"].chemical_symbols = {})

\* C8: without an attached calculator the document's calc and results are the empty
\* mapping: no calculator, module, class, energy, forces or fmax key.
C8_NoCalculatorEmptyCalcAndResults ==
    (doc_from = "encode" /\ IsNone(get_calculator(src_atoms))
        /\ DOMAIN call.kwargs \cap {"atoms", "calc", "results"} = {})
        => (IsDoc(doc) /\ DOMAIN doc["calc"] = {} /\ DOMAIN doc["results"] = {})

\* a single hydrogen atom at (0, 0, -0.5) without calculator, encoded
C8_Witness ==
    /\ Encoded /\ DOMAIN call.kwargs = {}
    /\ IsNone(get_calculator(src_atoms))
    /\ len(src_atoms) = 1
    /\ doc["atoms"].atoms[1].symbol = "H"
    /\ doc["atoms"].atoms[1].position = <<0, 0, -5>>
    /\ doc["atoms"].natoms = 1
    /\ doc["atoms"].chemical_symbols = {"H"}
    /\ DOMAIN doc["calc"] = {} /\ DOMAIN doc["results"] = {}

\* C9: every document made by make_doc_from_atoms has ctime equal to mtime, however the
\* wall clock behaves during the call, unless the caller overrides them.
C9_CtimeEqualsMtime ==
    (Encoded /\ DOMAIN call.kwargs \cap {"ctime", "mtime"} = {})
        => doc["ctime"] = doc["mtime"]

\* the keys of a document made without extra fields
DefaultKeys == {"atoms", "calc", "results", "user", "ctime", "mtime"}

\* C10: the caller's extra key-value pairs are merged last: for every key k passed to
\* make_doc_from_atoms, atoms, calc, results, user, ctime and mtime included, the
\* returned document maps k to the caller's value, and the keys the caller did not
\* pass keep their default values. (Stated of the structures that encode without
\* extra fields.)
C10_ExtraFieldsOverrideAnyKey ==
    (doc_from = "encode" /\ IsDoc(make_doc_from_atoms(src_atoms, EmptyDict, 0, 0))) =>
        /\ IsDoc(doc)
        /\ \A k \in DOMAIN call.kwargs : doc[k] = call.kwargs[k]
        /\ \A k \in DefaultKeys \ DOMAIN call.kwargs :
              \E ctime \in 0..MaxClock, mtime \in 0..MaxClock :
                 doc[k] = make_doc_from_atoms(src_atoms, EmptyDict, ctime, mtime)[k]

\* C11: with a calculator attached the calculator sub-encoding never fails the encode:
\* a calculator that cannot produce a settings dict gives empty settings, settings
\* without k-points give no kpts field, k-points are written as a list of plain
\* integers, and the module and class fields are always present and written after the
\* settings, so that they win over settings keys of the same name.
C11_CalculatorDictNeverFails ==
    (doc_from = "encode" /\ Truthy(get_calculator(src_atoms))
        /\ "atoms" \notin DOMAIN call.kwargs) =>
        LET calc == get_calculator(src_atoms)
            settings == IF calc.has_todict THEN calc.parameters ELSE EmptyDict
        IN  \* the only failure left is the one of the results sub-encoding (fmax)
            /\ IsRaise(doc) => (len(src_atoms) = 0 /\ "forces" \in call.requested)
            /\ (IsDoc(doc) /\ "calc" \notin DOMAIN call.kwargs) =>
                  LET written == doc["calc"].calculator
                  IN  /\ DOMAIN written = DOMAIN settings \cup {"module", "class"}
                      /\ written["module"] = calc.module
                      /\ written["class"] = calc.class
                      /\ "kpts" \in DOMAIN settings =>
                            /\ Len(written["kpts"]) = Len(settings["kpts"].ndarray)
                            /\ \A i \in 1..Len(written["kpts"]) :
                                  /\ written["kpts"][i] \in Int
                                  /\ written["kpts"][i] = settings["kpts"].ndarray[i].np_int64
                      /\ \A k \in DOMAIN settings \ {"kpts", "module", "class"} :
                            written[k] = settings[k]

\* a calculator whose settings have a key "module" of their own and no k-points
C11_Witness ==
    /\ Encoded /\ "calc" \notin DOMAIN call.kwargs
    /\ Truthy(get_calculator(src_atoms))
    /\ get_calculator(src_atoms).has_todict
    /\ "module" \in DOMAIN get_calculator(src_atoms).parameters
    /\ doc["calc"].calculator["module"] = "vasp.vasp_core"
    /\ "kpts" \notin DOMAIN doc["calc"].calculator

\* C13: the encoder tries the computed magnetic moments first and falls back to the
\* static per-atom values: for a structure without computed magnetic moments (no
\* calculator, or a calculator that holds none) the encode still succeeds and every
\* atom record's magmom is the atom's static value; with computed moments available
\* every record's magmom is the computed value for its index.
C13_MagmomFallbackAlwaysEncodes ==
    (doc_from = "encode" /\ "atoms" \notin DOMAIN call.kwargs) =>
        IF StaticMagmoms(src_atoms)
        THEN /\ IsDoc(doc)
             /\ \A i \in 1..len(src_atoms) :
                   doc["atoms"].atoms[i].magmom = src_atoms.atoms[i].magmom
        ELSE IsDoc(doc) =>
                \A i \in 1..len(src_atoms) :
                   doc["atoms"].atoms[i].magmom =
                       tolist(get_calculator(src_atoms).results.magmoms)[i]

\* the vasp_settings the layering rule gives a builder call: the standard settings, the
\* xc settings over them (or the caller's own dictionary in their place), and the job
\* kind's settings over both
LayeredMerge(p) ==
    LET lower == IF "str" \in DOMAIN p.settings
                 THEN xc_settings(p.settings.str) @@ StandardSettings
                 ELSE p.settings.dict
        job == IF p.builder = "bulk" THEN [encut |-> p.encut] @@ JobKindSettings.bulk
               ELSE IF p.builder = "adsorption"
                    THEN [nsw |-> p.nsw.nsw] @@ JobKindSettings.adsorption
               ELSE JobKindSettings[p.builder]
    IN  job @@ lower

\* C12: every builder (gas, bulk, slab, adsorption) returns a result, also when the
\* caller's settings hold a key the job kind sets too, and the result's vasp_settings
\* is the layered merge of standard, xc and job-kind settings, the later layer winning
C12_VaspSettingsAreLayeredMerge ==
    ~IsNone(params) =>
        /\ IsDoc(params.result)
        /\ params.result.vasp_settings = LayeredMerge(params)

\* C14: the catalog's 'OOH' carries the O-O spring (atoms 0, 1) and the O-H spring
\* (atoms 1, 2), so adsorption_parameters('OOH') sets nsw to 0; nsw is 0 exactly when
\* the resolved adsorbate has constraints and 200 otherwise
C14_OOHCarriesSpringsAndNswZero ==
    (~IsNone(params) /\ params.builder = "adsorption") =>
        /\ IsAtoms(params.adsorbate) =>
              params.nsw = [nsw |-> IF params.adsorbate.constraints # << >> THEN 0 ELSE 200]
        /\ ("str" \in DOMAIN params.arg /\ params.arg.str = "OOH") =>
              /\ params.adsorbate.constraints
                    = <<Hookean(0, 1, 10, 195), Hookean(1, 2, 5, 137)>>
              /\ params.nsw = [nsw |-> 0]

====
